---- MODULE Spec2Model ----
(***************************************************************************)
(* State-machine model of the MySQL MCP adapter (src/src/index.ts): the    *)
(* module-level connection slot and configuration, the query classifier,  *)
(* and the CallTool handler of every tool.  A handler is split exactly at *)
(* the points where it awaits; between two awaits it runs atomically.     *)
(* The mysql2 driver is external: createConnection, end and query each    *)
(* either resolve or reject, chosen nondeterministically.                 *)
(***************************************************************************)
EXTENDS Integers, Sequences, FiniteSets, TLC

\* ---------------------------------------------------------------- bounds
MaxHandles == 2

\* two tool calls may be in flight at once
Procs == {1, 2}
HandleIds == 1..MaxHandles
Null == 0

\* ------------------------------------------------------- text as characters
\* Text that the program converts (SQL, port numbers, database names) is a
\* sequence of one-character strings.
NaN == -1

WhiteSpace == {" ", "\t", "\n"}
Digits == <<"0", "1", "2", "3", "4", "5", "6", "7", "8", "9">>

Lower == <<"a", "b", "c", "d", "e", "f", "g", "h", "i", "j", "k", "l", "m",
           "n", "o", "p", "q", "r", "s", "t", "u", "v", "w", "x", "y", "z">>
Upper == <<"A", "B", "C", "D", "E", "F", "G", "H", "I", "J", "K", "L", "M",
           "N", "O", "P", "Q", "R", "S", "T", "U", "V", "W", "X", "Y", "Z">>

\* String.prototype.toUpperCase, one character
UpChar(c) ==
    IF \E i \in 1..26 : Lower[i] = c
    THEN Upper[CHOOSE i \in 1..26 : Lower[i] = c]
    ELSE c

\* String.prototype.toUpperCase
ToUpperCase(s) == [i \in 1..Len(s) |-> UpChar(s[i])]

\* String.prototype.trim
RECURSIVE TrimLeft(_)
TrimLeft(s) ==
    IF s # <<>> /\ Head(s) \in WhiteSpace THEN TrimLeft(Tail(s)) ELSE s

RECURSIVE TrimRight(_)
TrimRight(s) ==
    IF s # <<>> /\ s[Len(s)] \in WhiteSpace
    THEN TrimRight(SubSeq(s, 1, Len(s) - 1))
    ELSE s

Trim(s) == TrimRight(TrimLeft(s))

\* s.split(/\s+/)[0]: the characters before the first white space
RECURSIVE FirstSplit(_)
FirstSplit(s) ==
    IF s = <<>> \/ Head(s) \in WhiteSpace
    THEN <<>>
    ELSE <<Head(s)>> \o FirstSplit(Tail(s))

\* the rest of s after its first token and the white space that follows it
RestSplit(s) == TrimLeft(SubSeq(s, Len(FirstSplit(s)) + 1, Len(s)))

DigitValue(c) == (CHOOSE i \in 1..10 : Digits[i] = c) - 1
IsDigit(c) == \E i \in 1..10 : Digits[i] = c

\* parseInt(s): leading white space skipped, the leading run of decimal
\* digits converted, NaN when there is none
RECURSIVE ParseDigits(_, _)
ParseDigits(s, acc) ==
    IF s # <<>> /\ IsDigit(Head(s))
    THEN ParseDigits(Tail(s), acc * 10 + DigitValue(Head(s)))
    ELSE acc

parseInt(s) ==
    LET t == TrimLeft(s)
    IN  IF t # <<>> /\ IsDigit(Head(t)) THEN ParseDigits(t, 0) ELSE NaN

\* Number.prototype.toString
RECURSIVE DigitsOf(_)
DigitsOf(n) ==
    IF n < 10 THEN <<Digits[n + 1]>>
    ELSE DigitsOf(n \div 10) \o <<Digits[(n % 10) + 1]>>

toString(n) == IF n = NaN THEN <<"N", "a", "N">> ELSE DigitsOf(n)

\* ------------------------------------------------------------- classifier
QueryType == {"SELECT", "INSERT", "UPDATE", "DELETE", "CREATE", "DROP",
              "ALTER", "TRUNCATE", "USE", "SHOW", "DESCRIBE", "UNKNOWN"}

KindText(k) ==
    CASE k = "SELECT"   -> <<"S", "E", "L", "E", "C", "T">>
      [] k = "INSERT"   -> <<"I", "N", "S", "E", "R", "T">>
      [] k = "UPDATE"   -> <<"U", "P", "D", "A", "T", "E">>
      [] k = "DELETE"   -> <<"D", "E", "L", "E", "T", "E">>
      [] k = "CREATE"   -> <<"C", "R", "E", "A", "T", "E">>
      [] k = "DROP"     -> <<"D", "R", "O", "P">>
      [] k = "ALTER"    -> <<"A", "L", "T", "E", "R">>
      [] k = "TRUNCATE" -> <<"T", "R", "U", "N", "C", "A", "T", "E">>
      [] k = "USE"      -> <<"U", "S", "E">>
      [] k = "SHOW"     -> <<"S", "H", "O", "W">>
      [] k = "DESCRIBE" -> <<"D", "E", "S", "C", "R", "I", "B", "E">>
      [] k = "UNKNOWN"  -> <<"U", "N", "K", "N", "O", "W", "N">>

writeOperations == {"INSERT", "UPDATE", "DELETE", "CREATE", "DROP", "ALTER",
                    "TRUNCATE"}

\* isWriteOperation whose list lacks TRUNCATE
isWriteOperation_noTruncate(queryType) ==
    queryType \in (writeOperations \ {"TRUNCATE"})

isWriteOperation(queryType) == queryType \in writeOperations

\* getQueryType that forgets query.trim()
getQueryType_noTrim(query) ==
    LET firstWord == ToUpperCase(FirstSplit(query))
    IN  IF \E k \in QueryType : KindText(k) = firstWord
        THEN CHOOSE k \in QueryType : KindText(k) = firstWord
        ELSE "UNKNOWN"

getQueryType(query) ==
    LET firstWord == ToUpperCase(FirstSplit(Trim(query)))
    IN  IF \E k \in QueryType : KindText(k) = firstWord
        THEN CHOOSE k \in QueryType : KindText(k) = firstWord
        ELSE "UNKNOWN"

\* ------------------------------------------------------------ sample text
sqlDelete == <<"D", "E", "L", "E", "T", "E", " ", "F", "R", "O", "M", " ", "t">>
sqlInsertLower == <<" ", " ", "i", "n", "s", "e", "r", "t", " ", "i", "n", "t", "o", " ", "t">>
sqlSelect == <<"S", "E", "L", "E", "C", "T", " ", "1">>
sqlUse == <<"U", "S", "E", " ", "d", "2">>
sqlWith == <<"W", "I", "T", "H", " ", "x">>
sqlShowTables == <<"S", "H", "O", "W", " ", "T", "A", "B", "L", "E", "S">>
sqlDescribe == <<"D", "E", "S", "C", "R", "I", "B", "E", " ", "?", "?">>
sqlShowDatabases == <<"S", "H", "O", "W", " ", "D", "A", "T", "A", "B", "A", "S", "E", "S">>
sqlUseParam == <<"U", "S", "E", " ", "?", "?">>
db1 == <<"d", "1">>
db2 == <<"d", "2">>
NoDatabase == <<>>
tbl == <<"t">>
port3306 == <<"3", "3", "0", "6">>
port3307 == <<"3", "3", "0", "7">>

\* ------------------------------------------------------------------ state
VARIABLES
    connection,        \* the connection slot: a handle id, or Null
    connectionConfig,  \* host, port, user, password, database, readonly
    handles,           \* driver side: every handle's state and selected database
    pc,                \* per in-flight tool call: the await it is suspended at
    request,           \* per in-flight tool call: name and arguments
    newConfig,         \* connect handler: the merged configuration
    conn,              \* the handle the suspended driver call was made on
    response           \* the response envelope returned by the step just taken

vars == <<connection, connectionConfig, handles, pc, request, newConfig, conn,
          response>>

NoHandle == [st |-> "none", db |-> NoDatabase]
NoRequest == [name |-> "none"]
NoResponse == [request |-> NoRequest]
NoConfig == [host |-> "", port |-> NaN, user |-> "", password |-> "",
             database |-> NoDatabase, readonly |-> FALSE]

OpenHandles == {h \in HandleIds : handles[h].st \in {"open", "ending"}}
Allocated == {h \in HandleIds : handles[h].st # "none"}
Idle(p) == pc[p] = "idle"
AllIdle == \A p \in Procs : Idle(p)

\* an arriving tool call takes the first free slot
Free(p) == Idle(p) /\ \A q \in Procs : q < p => ~Idle(q)

\* a driver call returns in a later turn of the event loop, after every
\* continuation of an already settled promise (await getConnection()) has run
DriverReturns == \A q \in Procs : pc[q] # "q_conn"

\* process.env at start-up: MYSQL_DATABASE and MYSQL_READONLY set or not
EnvConfigs ==
    {[host |-> "localhost", port |-> parseInt(port3306), user |-> "root",
      password |-> "", database |-> d, readonly |-> r] :
        d \in {NoDatabase, db1}, r \in BOOLEAN}

Init ==
    /\ connection = Null
    /\ connectionConfig \in EnvConfigs
    /\ handles = [h \in HandleIds |-> NoHandle]
    /\ pc = [p \in Procs |-> "idle"]
    /\ request = [p \in Procs |-> NoRequest]
    /\ newConfig = [p \in Procs |-> NoConfig]
    /\ conn = [p \in Procs |-> Null]
    /\ response = NoResponse

\* --------------------------------------------------------------- requests
Has(req, field) == field \in DOMAIN req

ConnectRequests ==
    { [name |-> "connect"],
      [name |-> "connect", host |-> "db.example", port |-> port3307,
       user |-> "app", password |-> "pw2", database |-> db2],
      [name |-> "connect", password |-> "", database |-> NoDatabase] }

SqlTexts == {sqlDelete, sqlInsertLower, sqlSelect, sqlUse, sqlWith}

QueryRequests ==
    {[name |-> "query", sql |-> t] : t \in SqlTexts}
        \cup {[name |-> "query"]}

DescribeRequests ==
    {[name |-> "describe_table", table |-> tbl], [name |-> "describe_table"]}

UseRequests ==
    {[name |-> "use_database", database |-> d] : d \in {db1, db2, NoDatabase}}
        \cup {[name |-> "use_database"]}

ReadonlyRequests ==
    {[name |-> "set_readonly", readonly |-> b] : b \in BOOLEAN}
        \cup {[name |-> "set_readonly"]}

\* ---------------------------------------------------------------- driver
\* connection.end() is invoked on handle h
EndInvoked(h) ==
    [handles EXCEPT ![h].st = IF @ = "open" THEN "ending" ELSE @]

\* end() resolved: the handle is closed and has no database selected
EndResolved(h) == [handles EXCEPT ![h] = [st |-> "closed", db |-> NoDatabase]]

\* end() rejected: the handle is closed, or open as before the call
EndRejected(h) ==
    {[handles EXCEPT ![h] = hs] :
        hs \in {[st |-> "closed", db |-> NoDatabase]} \cup
               (IF handles[h].st = "ending"
                THEN {[st |-> "open", db |-> handles[h].db]} ELSE {})}

\* every statement text a handler passes to executeQuery
Statements ==
    SqlTexts \cup {sqlShowTables, sqlDescribe, sqlShowDatabases, sqlUseParam}

\* const queryType = getQueryType(query), per statement
queryTypeOf == [sql \in Statements |-> getQueryType(sql)]

\* the first and the second word of a statement as the server reads them
FirstWordOf == [sql \in Statements |-> ToUpperCase(FirstSplit(Trim(sql)))]
SecondWordOf == [sql \in Statements |-> FirstSplit(RestSplit(Trim(sql)))]

\* the database a statement selects on the server: USE <name>, with the
\* identifier placeholder ?? filled from the first parameter
UseTarget(sql, params) ==
    IF SecondWordOf[sql] = <<"?", "?">> /\ params # <<>>
    THEN params[1]
    ELSE SecondWordOf[sql]

IsUse(sql) == FirstWordOf[sql] = <<"U", "S", "E">>

\* -------------------------------------------------------------- responses
Ok(t) == [isError |-> FALSE, text |-> t]
Err(t) == [isError |-> TRUE, text |-> t]

\* the handler of request req returns envelope r; its locals go out of scope
Reply(p, req, r) ==
    /\ response' = [request |-> req] @@ r
    /\ pc' = [pc EXCEPT ![p] = "idle"]
    /\ request' = [request EXCEPT ![p] = NoRequest]
    /\ newConfig' = [newConfig EXCEPT ![p] = NoConfig]
    /\ conn' = [conn EXCEPT ![p] = Null]

\* the handler of request req suspends at await point at
Suspend(p, req, at, cfg, h) ==
    /\ pc' = [pc EXCEPT ![p] = at]
    /\ request' = [request EXCEPT ![p] = req]
    /\ newConfig' = [newConfig EXCEPT ![p] = cfg]
    /\ conn' = [conn EXCEPT ![p] = h]
    /\ response' = NoResponse

\* ------------------------------------------------------------------ status
StatusBody ==
    IF connection = Null
    THEN [isError |-> FALSE, text |-> "status",
          connected |-> FALSE, message |-> "not connected",
          host |-> connectionConfig.host,
          port |-> connectionConfig.port,
          user |-> connectionConfig.user,
          database |-> connectionConfig.database,
          readonly |-> connectionConfig.readonly]
    ELSE [isError |-> FALSE, text |-> "status",
          connected |-> TRUE,
          host |-> connectionConfig.host,
          port |-> connectionConfig.port,
          user |-> connectionConfig.user,
          database |-> connectionConfig.database,
          threadId |-> connection,
          readonly |-> connectionConfig.readonly]

\* a status handler that goes through getConnection() like the query tools
Status_requiresConnection(p) ==
    /\ Free(p)
    /\ Reply(p, [name |-> "status"],
             IF connection = Null THEN Err("not connected") ELSE StatusBody)
    /\ UNCHANGED <<connection, connectionConfig, handles>>

Status(p) ==
    /\ Free(p)
    /\ Reply(p, [name |-> "status"], StatusBody)
    /\ UNCHANGED <<connection, connectionConfig, handles>>

\* ----------------------------------------------------------------- connect
\* a || b on strings: b when a is missing or empty
OrElse(req, field, empty, dflt) ==
    IF Has(req, field) /\ req[field] # empty THEN req[field] ELSE dflt

\* a connect handler that takes readonly from its default instead of the
\* stored configuration
MergeConfig_readonlyReset(args) ==
    [host |-> OrElse(args, "host", "", connectionConfig.host),
     port |-> parseInt(OrElse(args, "port", <<>>,
                              toString(connectionConfig.port))),
     user |-> OrElse(args, "user", "", connectionConfig.user),
     password |-> OrElse(args, "password", "", connectionConfig.password),
     database |-> OrElse(args, "database", NoDatabase,
                         connectionConfig.database),
     readonly |-> FALSE]

MergeConfig(args) ==
    [host |-> OrElse(args, "host", "", connectionConfig.host),
     port |-> parseInt(OrElse(args, "port", <<>>,
                              toString(connectionConfig.port))),
     user |-> OrElse(args, "user", "", connectionConfig.user),
     password |-> OrElse(args, "password", "", connectionConfig.password),
     database |-> OrElse(args, "database", NoDatabase,
                         connectionConfig.database),
     readonly |-> connectionConfig.readonly]

ConnectFailed == [isError |-> TRUE, text |-> "connect failed",
                  connected |-> FALSE]

\* a success message that renders the whole configuration
ConnectSucceeded_withPassword(cfg) ==
    [isError |-> FALSE, text |-> "connected", host |-> cfg.host,
     port |-> cfg.port, user |-> cfg.user, password |-> cfg.password,
     database |-> cfg.database, readonly |-> cfg.readonly]

ConnectSucceeded(cfg) ==
    [isError |-> FALSE, text |-> "connected", host |-> cfg.host,
     port |-> cfg.port, database |-> cfg.database, readonly |-> cfg.readonly]

\* a connect call is accepted only while a handle id is left for it
HandleBudget ==
    Cardinality(Allocated)
        + Cardinality({q \in Procs : pc[q] \in {"c_end", "c_create"}})
            < MaxHandles

\* connectToDatabase that opens the new handle without ending the old one
Connect_noClose(p, req) ==
    /\ Free(p)
    /\ HandleBudget
    /\ Suspend(p, req, "c_create", MergeConfig(req), Null)
    /\ UNCHANGED <<connection, connectionConfig, handles>>

\* the handler up to the first await of connectToDatabase
Connect(p, req) ==
    /\ Free(p)
    /\ HandleBudget
    /\ IF connection # Null
       THEN /\ handles' = EndInvoked(connection)
            /\ Suspend(p, req, "c_end", MergeConfig(req), connection)
       ELSE /\ Suspend(p, req, "c_create", MergeConfig(req), Null)
            /\ UNCHANGED handles
    /\ UNCHANGED <<connection, connectionConfig>>

\* await connection.end() returns: createConnection is called, or the
\* rejection is rethrown to the handler
ConnectEndReturn(p) ==
    /\ pc[p] = "c_end"
    /\ DriverReturns
    /\ \/ /\ handles' = EndResolved(conn[p])
          /\ Suspend(p, request[p], "c_create", newConfig[p], Null)
       \/ /\ handles' \in EndRejected(conn[p])
          /\ Reply(p, request[p], ConnectFailed)
    /\ UNCHANGED <<connection, connectionConfig>>

\* connectToDatabase that stores the configuration before createConnection
\* has succeeded
ConnectCreateReturn_storeFirst(p) ==
    /\ pc[p] = "c_create"
    /\ DriverReturns
    /\ connectionConfig' = newConfig[p]
    /\ \/ \E h \in HandleIds :
             /\ handles[h].st = "none"
             /\ \A g \in HandleIds : handles[g].st = "none" => h <= g
             /\ handles' = [handles EXCEPT
                              ![h] = [st |-> "open",
                                      db |-> newConfig[p].database]]
             /\ connection' = h
             /\ Reply(p, request[p], ConnectSucceeded(newConfig[p]))
       \/ /\ Reply(p, request[p], ConnectFailed)
          /\ UNCHANGED <<connection, handles>>

\* await createConnection(...) returns
ConnectCreateReturn(p) ==
    /\ pc[p] = "c_create"
    /\ DriverReturns
    /\ \/ \E h \in HandleIds :
             /\ handles[h].st = "none"
             /\ \A g \in HandleIds : handles[g].st = "none" => h <= g
             /\ handles' = [handles EXCEPT
                              ![h] = [st |-> "open",
                                      db |-> newConfig[p].database]]
             /\ connection' = h
             /\ connectionConfig' = newConfig[p]
             /\ Reply(p, request[p], ConnectSucceeded(newConfig[p]))
       \/ /\ Reply(p, request[p], ConnectFailed)
          /\ UNCHANGED <<connection, connectionConfig, handles>>

\* -------------------------------------------------------------- disconnect
\* a disconnect handler without the if (!connection) early return:
\* connection.end() on null throws
Disconnect_noCheck(p) ==
    /\ Free(p)
    /\ IF connection = Null
       THEN /\ Reply(p, [name |-> "disconnect"], Err("type error"))
            /\ UNCHANGED handles
       ELSE /\ handles' = EndInvoked(connection)
            /\ Suspend(p, [name |-> "disconnect"], "d_end", NoConfig,
                       connection)
    /\ UNCHANGED <<connection, connectionConfig>>

Disconnect(p) ==
    /\ Free(p)
    /\ IF connection = Null
       THEN /\ Reply(p, [name |-> "disconnect"], Ok("not connected"))
            /\ UNCHANGED handles
       ELSE /\ handles' = EndInvoked(connection)
            /\ Suspend(p, [name |-> "disconnect"], "d_end", NoConfig,
                       connection)
    /\ UNCHANGED <<connection, connectionConfig>>

\* a disconnect handler that also resets the configuration to the defaults
DisconnectEndReturn_resetConfig(p) ==
    /\ pc[p] = "d_end"
    /\ DriverReturns
    /\ \/ /\ handles' = EndResolved(conn[p])
          /\ connection' = Null
          /\ connectionConfig' =
                CHOOSE c \in EnvConfigs : c.database = NoDatabase /\ ~c.readonly
          /\ Reply(p, request[p], Ok("disconnected"))
       \/ /\ handles' \in EndRejected(conn[p])
          /\ Reply(p, request[p], Err("driver error"))
          /\ UNCHANGED <<connection, connectionConfig>>

\* await connection.end() returns
DisconnectEndReturn(p) ==
    /\ pc[p] = "d_end"
    /\ DriverReturns
    /\ \/ /\ handles' = EndResolved(conn[p])
          /\ connection' = Null
          /\ Reply(p, request[p], Ok("disconnected"))
       \/ /\ handles' \in EndRejected(conn[p])
          /\ Reply(p, request[p], Err("driver error"))
          /\ UNCHANGED connection
    /\ UNCHANGED connectionConfig

\* ------------------------------------------------------------ executeQuery
\* the statement and the parameters a tool passes to executeQuery
HasSql(req) == req.name # "query" \/ Has(req, "sql")

SqlOf(req) ==
    CASE req.name = "query"          -> req.sql
      [] req.name = "list_tables"    -> sqlShowTables
      [] req.name = "describe_table" -> sqlDescribe
      [] req.name = "list_databases" -> sqlShowDatabases
      [] req.name = "use_database"   -> sqlUseParam

ParamsOf(req) ==
    CASE req.name = "query" ->
            IF Has(req, "params") THEN req.params ELSE <<>>
      [] req.name = "describe_table" -> <<req.table>>
      [] req.name = "use_database"   -> <<req.database>>
      [] OTHER -> <<>>

\* getConnection(): throws when the slot is empty, else returns the handle
getConnection(p, req) ==
    IF connection = Null
    THEN Reply(p, req, Err("not connected"))
    ELSE Suspend(p, req, "q_conn", NoConfig, connection)

\* a fail-closed guard: in read-only mode only SELECT passes
ReadonlyGuard_strict(req) ==
    IF connectionConfig.readonly
    THEN IF ~HasSql(req) THEN "type error"
         ELSE IF queryTypeOf[SqlOf(req)] # "SELECT"
              THEN "read only" ELSE "pass"
    ELSE "pass"

\* the read-only guard of executeQuery: "type error" when sql is undefined
\* (query.trim() on undefined), "read only" for a write kind, else "pass"
ReadonlyGuard(req) ==
    IF connectionConfig.readonly
    THEN IF ~HasSql(req) THEN "type error"
         ELSE IF isWriteOperation(queryTypeOf[SqlOf(req)])
              THEN "read only" ELSE "pass"
    ELSE "pass"

\* await getConnection() returns: the guard runs and conn.query is called
ExecuteQueryGuard(p) ==
    /\ pc[p] = "q_conn"
    /\ LET verdict == ReadonlyGuard(request[p])
       IN  IF verdict = "pass"
           THEN Suspend(p, request[p], "q_wait", NoConfig, conn[p])
           ELSE Reply(p, request[p], Err(verdict))
    /\ UNCHANGED <<connection, connectionConfig, handles>>

\* a use_database handler that stores the name whatever the USE returned
ExecuteQueryReturn_eager(p) ==
    /\ pc[p] = "q_wait"
    /\ DriverReturns
    /\ LET req == request[p]
       IN  /\ connectionConfig' =
                 IF req.name = "use_database"
                 THEN [connectionConfig EXCEPT !.database = req.database]
                 ELSE connectionConfig
           /\ \/ /\ handles[conn[p]].st = "open"
                 /\ handles' =
                       IF HasSql(req) /\ IsUse(SqlOf(req))
                       THEN [handles EXCEPT ![conn[p]].db =
                                 UseTarget(SqlOf(req), ParamsOf(req))]
                       ELSE handles
                 /\ Reply(p, req, Ok(IF req.name = "use_database"
                                     THEN "switched" ELSE "rows"))
              \/ /\ Reply(p, req, Err("driver error"))
                 /\ UNCHANGED handles
    /\ UNCHANGED connection

\* an executeQuery that drops the connection when the driver rejects
ExecuteQueryReturn_dropOnError(p) ==
    /\ pc[p] = "q_wait"
    /\ DriverReturns
    /\ LET req == request[p]
       IN  \/ /\ handles[conn[p]].st = "open"
              /\ handles' =
                    IF HasSql(req) /\ IsUse(SqlOf(req))
                    THEN [handles EXCEPT ![conn[p]].db =
                              UseTarget(SqlOf(req), ParamsOf(req))]
                    ELSE handles
              /\ IF req.name = "use_database"
                 THEN /\ connectionConfig' =
                            [connectionConfig EXCEPT !.database = req.database]
                      /\ Reply(p, req, Ok("switched"))
                 ELSE /\ Reply(p, req, Ok("rows"))
                      /\ UNCHANGED connectionConfig
              /\ UNCHANGED connection
           \/ /\ Reply(p, req, Err("driver error"))
              /\ connection' = Null
              /\ UNCHANGED <<connectionConfig, handles>>

\* an executeQuery that runs again when the driver rejects the statement
ExecuteQueryReturn_retry(p) ==
    /\ pc[p] = "q_wait"
    /\ DriverReturns
    /\ LET req == request[p]
       IN  \/ /\ handles[conn[p]].st = "open"
              /\ handles' =
                    IF HasSql(req) /\ IsUse(SqlOf(req))
                    THEN [handles EXCEPT ![conn[p]].db =
                              UseTarget(SqlOf(req), ParamsOf(req))]
                    ELSE handles
              /\ IF req.name = "use_database"
                 THEN /\ connectionConfig' =
                            [connectionConfig EXCEPT !.database = req.database]
                      /\ Reply(p, req, Ok("switched"))
                 ELSE /\ Reply(p, req, Ok("rows"))
                      /\ UNCHANGED connectionConfig
           \/ /\ Suspend(p, req, "q_conn", NoConfig, conn[p])
              /\ UNCHANGED <<connectionConfig, handles>>
    /\ UNCHANGED connection

\* an executeQuery that resumes only while its handle is the stored one
ExecuteQueryReturn_sameHandle(p) ==
    /\ pc[p] = "q_wait"
    /\ DriverReturns
    /\ connection = conn[p]
    /\ LET req == request[p]
       IN  \/ /\ handles[conn[p]].st = "open"
              /\ handles' =
                    IF HasSql(req) /\ IsUse(SqlOf(req))
                    THEN [handles EXCEPT ![conn[p]].db =
                              UseTarget(SqlOf(req), ParamsOf(req))]
                    ELSE handles
              /\ IF req.name = "use_database"
                 THEN /\ connectionConfig' =
                            [connectionConfig EXCEPT !.database = req.database]
                      /\ Reply(p, req, Ok("switched"))
                 ELSE /\ Reply(p, req, Ok("rows"))
                      /\ UNCHANGED connectionConfig
           \/ /\ Reply(p, req, Err("driver error"))
              /\ UNCHANGED <<connectionConfig, handles>>
    /\ UNCHANGED connection

\* await conn.query(sql, params) returns: a statement succeeds only on a
\* handle that is still open, and a successful USE selects its database
ExecuteQueryReturn(p) ==
    /\ pc[p] = "q_wait"
    /\ DriverReturns
    /\ LET req == request[p]
       IN  \/ /\ handles[conn[p]].st = "open"
              /\ handles' =
                    IF HasSql(req) /\ IsUse(SqlOf(req))
                    THEN [handles EXCEPT ![conn[p]].db =
                              UseTarget(SqlOf(req), ParamsOf(req))]
                    ELSE handles
              /\ IF req.name = "use_database"
                 THEN /\ connectionConfig' =
                            [connectionConfig EXCEPT !.database = req.database]
                      /\ Reply(p, req, Ok("switched"))
                 ELSE /\ Reply(p, req, Ok("rows"))
                      /\ UNCHANGED connectionConfig
           \/ /\ Reply(p, req, Err("driver error"))
              /\ UNCHANGED <<connectionConfig, handles>>
    /\ UNCHANGED connection

Query(p, req) ==
    /\ Free(p)
    /\ getConnection(p, req)
    /\ UNCHANGED <<connection, connectionConfig, handles>>

ListTables(p) ==
    /\ Free(p)
    /\ getConnection(p, [name |-> "list_tables"])
    /\ UNCHANGED <<connection, connectionConfig, handles>>

DescribeTable(p, req) ==
    /\ Free(p)
    /\ IF ~Has(req, "table") \/ req.table = <<>>
       THEN Reply(p, req, Err("table name required"))
       ELSE getConnection(p, req)
    /\ UNCHANGED <<connection, connectionConfig, handles>>

ListDatabases(p) ==
    /\ Free(p)
    /\ getConnection(p, [name |-> "list_databases"])
    /\ UNCHANGED <<connection, connectionConfig, handles>>

UseDatabase(p, req) ==
    /\ Free(p)
    /\ IF ~Has(req, "database") \/ req.database = NoDatabase
       THEN Reply(p, req, Err("database name required"))
       ELSE getConnection(p, req)
    /\ UNCHANGED <<connection, connectionConfig, handles>>

\* ------------------------------------------------------------ set_readonly
SetReadonly(p, req) ==
    /\ Free(p)
    /\ IF ~Has(req, "readonly")
       THEN /\ Reply(p, req, Err("readonly required"))
            /\ UNCHANGED connectionConfig
       ELSE /\ connectionConfig' =
                  [connectionConfig EXCEPT !.readonly = req.readonly]
            /\ Reply(p, req, Ok(IF req.readonly THEN "read only enabled"
                                                ELSE "read only disabled"))
    /\ UNCHANGED <<connection, handles>>

\* ----------------------------------------------------------------- default
\* a default branch that answers with a non-error envelope
UnknownTool_noError(p) ==
    /\ Free(p)
    /\ Reply(p, [name |-> "no_such_tool"], Ok("unknown tool"))
    /\ UNCHANGED <<connection, connectionConfig, handles>>

UnknownTool(p) ==
    /\ Free(p)
    /\ Reply(p, [name |-> "no_such_tool"], Err("unknown tool"))
    /\ UNCHANGED <<connection, connectionConfig, handles>>

\* ----------------------------------------------------------- specification
\* a tool call arrives and its handler runs to its first await
Call(p) ==
    \/ Status(p)
    \/ \E req \in ConnectRequests : Connect(p, req)
    \/ Disconnect(p)
    \/ \E req \in QueryRequests : Query(p, req)
    \/ ListTables(p)
    \/ \E req \in DescribeRequests : DescribeTable(p, req)
    \/ ListDatabases(p)
    \/ \E req \in UseRequests : UseDatabase(p, req)
    \/ \E req \in ReadonlyRequests : SetReadonly(p, req)
    \/ UnknownTool(p)

\* a suspended handler resumes when what it awaits returns
Resume(p) ==
    \/ ConnectEndReturn(p)
    \/ ConnectCreateReturn(p)
    \/ DisconnectEndReturn(p)
    \/ ExecuteQueryGuard(p)
    \/ ExecuteQueryReturn(p)

\* tool calls delivered concurrently: handlers interleave at their awaits
Next == \E p \in Procs : Call(p) \/ Resume(p)

Spec == Init /\ [][Next]_vars

\* tool calls processed one at a time
SeqNext == \E p \in Procs : (AllIdle /\ Call(p)) \/ Resume(p)

SeqSpec == Init /\ [][SeqNext]_vars

\* ----------------------------------------------- overlapping calls, fair
\* one request per tool, delivered concurrently
LiveCall(p) ==
    \/ Status(p)
    \/ Connect(p, [name |-> "connect"])
    \/ Disconnect(p)
    \/ Query(p, [name |-> "query", sql |-> sqlDelete])
    \/ ListTables(p)
    \/ DescribeTable(p, [name |-> "describe_table", table |-> tbl])
    \/ ListDatabases(p)
    \/ UseDatabase(p, [name |-> "use_database", database |-> db2])
    \/ SetReadonly(p, [name |-> "set_readonly", readonly |-> TRUE])
    \/ UnknownTool(p)

LiveNext == \E p \in Procs : LiveCall(p) \/ Resume(p)

\* the event loop runs the continuation of every settled promise, and the
\* driver settles every promise it has handed out
LiveSpec ==
    Init /\ [][LiveNext]_vars /\ \A p \in Procs : SF_vars(Resume(p))

\* ------------------------------------- the MySQLConnectionManager variant
\* The class of the earlier variant: this.connection is the connection slot,
\* this.config the stored configuration, its methods are called one at a time.
Caller == 1

\* this.config = {}
EmptyOptions == [f \in {} |-> ""]

\* the connect tool: zod defaults fill host, port, user and password, the
\* database is optional
ManagerConnectRequests ==
    { [name |-> "connect", host |-> "localhost", port |-> port3306,
       user |-> "root", password |-> ""],
      [name |-> "connect", host |-> "localhost", port |-> port3306,
       user |-> "root", password |-> "", database |-> db1],
      [name |-> "connect", host |-> "db.example", port |-> port3307,
       user |-> "app", password |-> "pw2", database |-> db2] }

\* { host, port: parseInt(port, 10), user, password, database }
ConnectionOptions(req) ==
    [f \in DOMAIN req \ {"name"} |->
        IF f = "port" THEN parseInt(req.port) ELSE req[f]]

DatabaseOf(config) ==
    IF Has(config, "database") THEN config.database ELSE NoDatabase

isConnected == connection # Null

getConnectionInfo ==
    IF ~isConnected
    THEN [connected |-> FALSE]
    ELSE [connected |-> TRUE,
          host |-> connectionConfig.host,
          port |-> connectionConfig.port,
          user |-> connectionConfig.user,
          database |-> DatabaseOf(connectionConfig)]

ManagerInit ==
    /\ connection = Null
    /\ connectionConfig = EmptyOptions
    /\ handles = [h \in HandleIds |-> NoHandle]
    /\ pc = [p \in Procs |-> "idle"]
    /\ request = [p \in Procs |-> NoRequest]
    /\ newConfig = [p \in Procs |-> NoConfig]
    /\ conn = [p \in Procs |-> Null]
    /\ response = NoResponse

ManagerStatus ==
    /\ AllIdle
    /\ Reply(Caller, [name |-> "status"], getConnectionInfo)
    /\ UNCHANGED <<connection, connectionConfig, handles>>

\* connect(config) up to its first await: the implicit disconnect when a
\* handle is held, else this.config = config and createConnection
ManagerConnect(req) ==
    /\ AllIdle
    /\ Cardinality(Allocated) < MaxHandles
    /\ IF connection # Null
       THEN /\ handles' = EndInvoked(connection)
            /\ Suspend(Caller, req, "m_disconnect", ConnectionOptions(req),
                       connection)
            /\ UNCHANGED <<connection, connectionConfig>>
       ELSE /\ connectionConfig' = ConnectionOptions(req)
            /\ Suspend(Caller, req, "m_create", ConnectionOptions(req), Null)
            /\ UNCHANGED <<connection, handles>>

\* await this.disconnect() returns inside connect: disconnect has cleared
\* the slot and the configuration, or has swallowed the rejection of end();
\* then this.config = config and createConnection is called
ManagerConnectDisconnectReturn ==
    /\ pc[Caller] = "m_disconnect"
    /\ \/ /\ handles' = EndResolved(conn[Caller])
          /\ connection' = Null
       \/ /\ handles' \in EndRejected(conn[Caller])
          /\ UNCHANGED connection
    /\ connectionConfig' = newConfig[Caller]
    /\ Suspend(Caller, request[Caller], "m_create", newConfig[Caller], Null)

\* await mysql.createConnection(config) returns
ManagerCreateReturn ==
    /\ pc[Caller] = "m_create"
    /\ \/ \E h \in HandleIds :
             /\ handles[h].st = "none"
             /\ \A g \in HandleIds : handles[g].st = "none" => h <= g
             /\ handles' = [handles EXCEPT
                              ![h] = [st |-> "open",
                                      db |-> DatabaseOf(newConfig[Caller])]]
             /\ connection' = h
             /\ Reply(Caller, request[Caller], Ok("connected"))
       \/ /\ Reply(Caller, request[Caller], Err("connect failed"))
          /\ UNCHANGED <<connection, handles>>
    /\ UNCHANGED connectionConfig

\* disconnect() called by the disconnect tool
ManagerDisconnect ==
    /\ AllIdle
    /\ IF connection = Null
       THEN /\ Reply(Caller, [name |-> "disconnect"], Ok("not connected"))
            /\ UNCHANGED handles
       ELSE /\ handles' = EndInvoked(connection)
            /\ Suspend(Caller, [name |-> "disconnect"], "m_end", NoConfig,
                       connection)
    /\ UNCHANGED <<connection, connectionConfig>>

ManagerDisconnectReturn ==
    /\ pc[Caller] = "m_end"
    /\ \/ /\ handles' = EndResolved(conn[Caller])
          /\ connection' = Null
          /\ connectionConfig' = EmptyOptions
          /\ Reply(Caller, request[Caller], Ok("disconnected"))
       \/ /\ handles' \in EndRejected(conn[Caller])
          /\ Reply(Caller, request[Caller], Err("disconnect failed"))
          /\ UNCHANGED <<connection, connectionConfig>>

\* useDatabase(database) up to its await
ManagerUseDatabase(database) ==
    /\ AllIdle
    /\ LET req == [name |-> "useDatabase", database |-> database]
       IN  IF connection = Null
           THEN Reply(Caller, req, Err("not connected"))
           ELSE Suspend(Caller, req, "m_use", NoConfig, connection)
    /\ UNCHANGED <<connection, connectionConfig, handles>>

\* await this.connection.execute("USE `database`") returns
ManagerUseDatabaseReturn ==
    /\ pc[Caller] = "m_use"
    /\ LET req == request[Caller]
       IN  \/ /\ handles[conn[Caller]].st = "open"
              /\ handles' = [handles EXCEPT ![conn[Caller]].db = req.database]
              /\ connectionConfig' =
                    [database |-> req.database] @@ connectionConfig
              /\ Reply(Caller, req, Ok("switched"))
           \/ /\ Reply(Caller, req, Err("use failed"))
              /\ UNCHANGED <<connectionConfig, handles>>
    /\ UNCHANGED connection

ManagerNext ==
    \/ ManagerStatus
    \/ \E req \in ManagerConnectRequests : ManagerConnect(req)
    \/ ManagerConnectDisconnectReturn
    \/ ManagerCreateReturn
    \/ ManagerDisconnect
    \/ ManagerDisconnectReturn
    \/ \E d \in {db1, db2} : ManagerUseDatabase(d)
    \/ ManagerUseDatabaseReturn

ManagerSpec == ManagerInit /\ [][ManagerNext]_vars

\* ------------------------------------------------- the classifier alone
\* SQL texts built from leading white space, a first token in upper or lower
\* case, and a tail that starts with white space
LowChar(c) ==
    IF \E i \in 1..26 : Upper[i] = c
    THEN Lower[CHOOSE i \in 1..26 : Upper[i] = c]
    ELSE c

ToLowerCase(s) == [i \in 1..Len(s) |-> LowChar(s[i])]

Pads == {<<>>, <<" ">>, <<"\t", "\n", " ">>}
Tails == {<<>>, <<" ", "x">>, <<"\n", "1", " ">>}
OtherWords == {<<>>, <<"W", "I", "T", "H">>,
               <<"D", "E", "L", "E", "T", "E", "D">>,
               <<"1", "2">>}
Words == {KindText(k) : k \in QueryType} \cup OtherWords

ClassifierInputs == [pad : Pads, word : Words, lower : BOOLEAN, tail : Tails]

TextOf(i) ==
    i.pad \o (IF i.lower THEN ToLowerCase(i.word) ELSE i.word) \o i.tail

\* getQueryType and isWriteOperation applied to one text
Classify(i) ==
    /\ response' =
          [request |-> [name |-> "classify", sql |-> TextOf(i)],
           queryType |-> getQueryType(TextOf(i)),
           isWrite |-> isWriteOperation(getQueryType(TextOf(i)))]
    /\ UNCHANGED <<connection, connectionConfig, handles, pc, request,
                   newConfig, conn>>

ClassifyNext == \E i \in ClassifierInputs : Classify(i)

ClassifySpec == Init /\ [][ClassifyNext]_vars

\* ------------------------------------------------------------- properties
\* the request answered by the step just taken, and its response
Answered == response'.request
Replied(tool) == response'.request.name = tool
Connected == connection # Null
InFlight(tool) == \E p \in Procs : request[p].name = tool
\* the sample statements whose first token is a write kind
WriteStatements == {sqlDelete, sqlInsertLower}
WriteText(req) == Has(req, "sql") /\ req.sql \in WriteStatements

\* C1: tool calls processed one at a time.  A query call whose SQL is
\* write-classified, made while readonly is true, ends in an error response
\* and reaches the reply without any conn.query call; and no step hands a
\* write-classified statement to the driver while readonly is true.
C1_ReadonlyBlocksWrites ==
    [][ /\ (Replied("query") /\ WriteText(Answered)
              /\ connectionConfig.readonly)
           => (response'.isError /\ \A p \in Procs : pc[p] # "q_wait")
        /\ \A p \in Procs :
              (pc[p] = "q_conn" /\ pc'[p] = "q_wait"
                 /\ connectionConfig.readonly)
              => ~WriteText(request[p]) ]_vars

C1_Witness ==
    /\ response.request.name = "query"
    /\ response.request = [name |-> "query", sql |-> sqlInsertLower]
    /\ response.isError
    /\ response.text = "read only"
    /\ Connected
    /\ connectionConfig.readonly

\* C2: with readonly true, a query call with a write-classified statement is
\* answered with the read-only error in every connection state, Disconnected
\* included.
C2_ReadonlyErrorFirst ==
    [][ (Replied("query") /\ WriteText(Answered) /\ connectionConfig.readonly)
        => response'.text = "read only" ]_vars

\* C3: after a connect call fails the connection slot is empty, whether the
\* call started Disconnected or Connected.
C3_FailedConnectDisconnects ==
    [][ (Replied("connect") /\ response'.isError) => connection' = Null ]_vars

\* C4: tool calls processed one at a time.  No step of a connect call other
\* than its successful return changes the stored configuration, so a failed
\* connect leaves host, port, user, password, database and readonly as they
\* were before the call; the successful return stores the merged
\* configuration.
C4_FailedConnectKeepsConfig ==
    [][ /\ (InFlight("connect")' \/ (Replied("connect") /\ response'.isError))
           => connectionConfig' = connectionConfig
        /\ (Replied("connect") /\ ~response'.isError)
           => connectionConfig' = MergeConfig(Answered) ]_vars

C4_Witness ==
    /\ response.request.name = "connect"
    /\ response.isError
    /\ Has(response.request, "host")
    /\ connectionConfig.host # response.request.host
    /\ connectionConfig.database = db1

\* C5: tool calls processed one at a time.  When a connect call succeeds
\* while the slot already holds a handle, that handle was closed before the
\* new one was opened, the new handle is the only open one and is the stored
\* one, and the stored host, port, user and database are those of this call.
C5_SecondConnectReplaces ==
    [][ (Replied("connect") /\ ~response'.isError /\ Connected)
        => /\ handles[connection].st = "closed"
           /\ connection' # connection
           /\ OpenHandles' = {connection'}
           /\ connectionConfig' = MergeConfig(Answered)
           /\ \A f \in {"host", "user"} :
                 (Has(Answered, f) /\ Answered[f] # "")
                 => connectionConfig'[f] = Answered[f]
           /\ (Has(Answered, "database") /\ Answered.database # NoDatabase)
                 => connectionConfig'.database = Answered.database
           /\ (Has(Answered, "port") /\ Answered.port # <<>>)
                 => connectionConfig'.port = parseInt(Answered.port) ]_vars

C5_Witness ==
    /\ response.request.name = "connect"
    /\ ~response.isError
    /\ connection = 2
    /\ handles[1].st = "closed"
    /\ handles[2].st = "open"
    /\ connectionConfig.host = "db.example"
    /\ connectionConfig.port = 3307

\* C6: at most one opened and not yet closed handle exists at any time,
\* also when connect and disconnect calls are delivered concurrently.
C6_AtMostOneOpenHandle == Cardinality(OpenHandles) <= 1

\* C7: when connect is called while connected, createConnection is called
\* after connection.end() returns, also when end() failed.
C7_CloseFailureDoesNotBlock ==
    [][ \A p \in Procs :
          (pc[p] = "c_end" /\ pc'[p] # "c_end") => pc'[p] = "c_create" ]_vars

\* C8: tool calls processed one at a time.  A disconnect call made while
\* Disconnected returns a non-error response without any driver call and
\* leaves the slot, the configuration (readonly included) and the handles
\* unchanged.
C8_DisconnectIdempotent ==
    [][ (Replied("disconnect") /\ ~Connected)
        => /\ ~response'.isError
           /\ AllIdle
           /\ UNCHANGED <<connection, connectionConfig, handles>> ]_vars

C8_Witness ==
    /\ response.request.name = "disconnect"
    /\ ~response.isError
    /\ response.text = "not connected"
    /\ ~Connected
    /\ handles[1].st = "closed"

\* C9: after a disconnect call made while Connected returns, the slot is
\* empty, whether or not connection.end() reported an error.
C9_DisconnectAlwaysDisconnects ==
    [][ (Replied("disconnect") /\ Connected) => connection' = Null ]_vars

\* C10: tool calls processed one at a time.  A use_database call changes
\* nothing before it returns; a successful return stores the requested name
\* as the database and changes no other field nor the slot; a failed return
\* (missing name, no connection, USE rejected) changes neither the
\* configuration nor the slot.
C10_UseDatabaseOnSuccessOnly ==
    [][ /\ InFlight("use_database")'
           => UNCHANGED <<connection, connectionConfig>>
        /\ (Replied("use_database") /\ response'.isError)
           => UNCHANGED <<connection, connectionConfig>>
        /\ (Replied("use_database") /\ ~response'.isError)
           => /\ connectionConfig'.database = Answered.database
              /\ connectionConfig' =
                    [connectionConfig EXCEPT !.database = Answered.database]
              /\ connection' = connection ]_vars

C10_Witness ==
    /\ response.request = [name |-> "use_database", database |-> db2]
    /\ response.isError
    /\ response.text = "driver error"
    /\ Connected
    /\ connectionConfig.database = db1
    /\ handles[connection].db = db1

\* C11: a raw USE statement sent through the query tool has the same effect
\* on status().database as use_database: after query("USE d2") succeeds the
\* stored database is d2.
C11_RawUseUpdatesDatabase ==
    [][ (Replied("query") /\ ~response'.isError /\ Has(Answered, "sql")
           /\ Answered.sql = sqlUse)
        => connectionConfig'.database = db2 ]_vars

\* C12: tool calls processed one at a time.  A set_readonly call with an
\* argument succeeds, Connected or Disconnected, stores the argument as the
\* readonly flag and changes nothing else; no other step (connect, failed or
\* successful, disconnect, use_database, query, status) changes the flag.
C12_ReadonlyFollowsLastSet ==
    [][ IF Replied("set_readonly") /\ Has(Answered, "readonly")
        THEN /\ ~response'.isError
             /\ connectionConfig' =
                   [connectionConfig EXCEPT !.readonly = Answered.readonly]
             /\ UNCHANGED <<connection, handles>>
        ELSE connectionConfig'.readonly = connectionConfig.readonly ]_vars

C12_Witness ==
    /\ response.request = [name |-> "set_readonly", readonly |-> TRUE]
    /\ ~response.isError
    /\ ~Connected
    /\ handles[1].st = "closed"
    /\ connectionConfig.host = "db.example"
    /\ connectionConfig.readonly

\* C13: the classifier marks a text as a write exactly when its first
\* white-space-delimited token, trimmed and upper-cased, is INSERT, UPDATE,
\* DELETE, CREATE, DROP, ALTER or TRUNCATE; the kind is that of the token
\* when it is one of the twelve kinds and UNKNOWN for any other token, the
\* empty and the white-space-only text included.
WriteKinds == {"INSERT", "UPDATE", "DELETE", "CREATE", "DROP", "ALTER",
               "TRUNCATE"}

C13_ClassifierByFirstToken ==
    \A i \in ClassifierInputs :
       (response.request.name = "classify"
          /\ response.request.sql = TextOf(i))
       => /\ response.isWrite = (\E k \in WriteKinds : KindText(k) = i.word)
          /\ \A k \in QueryType :
                KindText(k) = i.word => response.queryType = k
          /\ i.word \in OtherWords =>
                (response.queryType = "UNKNOWN" /\ ~response.isWrite)

C13_Witness ==
    /\ response.request.name = "classify"
    /\ response.request.sql =
          TextOf([pad |-> <<"\t", "\n", " ">>, word |-> KindText("TRUNCATE"),
                  lower |-> TRUE, tail |-> <<" ", "x">>])
    /\ response.queryType = "TRUNCATE"
    /\ response.isWrite

\* C14: in read-only mode with a live connection, a statement that is not
\* write-classified (SELECT, SHOW, DESCRIBE, USE, UNKNOWN) passes the guard
\* and is handed to the driver with the same request and handle; its call
\* fails only when the driver fails; the read-only error is returned for
\* write statements only.
NonWrite(req) == HasSql(req) /\ ~WriteText(req)

C14_ReadonlyFailOpen ==
    [][ /\ \A p \in Procs :
             (pc[p] = "q_conn" /\ connectionConfig.readonly
                /\ NonWrite(request[p]) /\ pc'[p] # pc[p])
             => /\ pc'[p] = "q_wait"
                /\ request'[p] = request[p]
                /\ conn'[p] = conn[p]
                /\ response' = NoResponse
        /\ \A p \in Procs :
             (pc[p] = "q_wait" /\ connectionConfig.readonly
                /\ pc'[p] # pc[p] /\ response'.isError)
             => response'.text = "driver error"
        /\ (response'.request # NoRequest /\ response'.text = "read only")
             => WriteText(Answered) ]_vars

C14_Witness ==
    /\ response.request = [name |-> "query", sql |-> sqlWith]
    /\ ~response.isError
    /\ connectionConfig.readonly
    /\ Connected

\* C15: a query or use_database call with valid arguments that is answered
\* while the connection slot is empty has opened a connection with the
\* stored configuration first: it is not answered with the not-connected
\* error and the slot holds a handle afterwards.
C15_AutoConnect ==
    [][ (/\ Replied("query") \/ Replied("use_database")
         /\ connection = Null
         /\ Replied("query") => Has(Answered, "sql")
         /\ Replied("use_database") =>
               (Has(Answered, "database") /\ Answered.database # NoDatabase))
        => (connection' # Null /\ response'.text # "not connected") ]_vars

\* C16: the configuration a connect call opens its connection with takes
\* host, user and password from the argument when it is supplied and from
\* the stored configuration otherwise, the port likewise (as a number), and
\* readonly from the stored configuration.
C16_ConnectMergesArguments ==
    [][ \A p \in Procs :
          (pc[p] = "idle" /\ pc'[p] \in {"c_end", "c_create"})
          => LET req == request'[p]
                 cfg == newConfig'[p]
             IN  /\ \A f \in {"host", "user", "password"} :
                       cfg[f] = IF Has(req, f) THEN req[f]
                                ELSE connectionConfig[f]
                 /\ cfg.port = IF Has(req, "port") THEN parseInt(req.port)
                               ELSE connectionConfig.port
                 /\ cfg.readonly = connectionConfig.readonly ]_vars

\* C17: a connect call that supplies an empty database while the stored
\* configuration names one opens its connection with no database selected
\* and, when it succeeds, leaves the stored database empty.
C17_ConnectClearsDatabase ==
    [][ (/\ Replied("connect") /\ ~response'.isError
         /\ Has(Answered, "database") /\ Answered.database = NoDatabase
         /\ connectionConfig.database # NoDatabase)
        => /\ connectionConfig'.database = NoDatabase
           /\ handles'[connection'].db = NoDatabase ]_vars

\* C18: the stored configuration persists across disconnect: a successful
\* connect stores the parameters it opened its connection with, no step of
\* a disconnect call changes the stored configuration, a connect without
\* arguments opens its connection with exactly the stored host, port, user,
\* password and database, and status while disconnected reports the stored
\* host, port, user and database.
C18_ConfigPersistsAcrossDisconnect ==
    [][ /\ \A p \in Procs :
             (pc[p] = "c_create" /\ pc'[p] = "idle" /\ ~response'.isError)
             => /\ connectionConfig' = newConfig[p]
                /\ handles'[connection'].db = newConfig[p].database
        /\ (Replied("disconnect")
              \/ \E p \in Procs : request'[p].name = "disconnect")
             => connectionConfig' = connectionConfig
        /\ \A p \in Procs :
             (pc[p] = "idle" /\ request'[p] = [name |-> "connect"])
             => newConfig'[p] = connectionConfig
        /\ (Replied("status") /\ connection = Null)
             => /\ response'.host = connectionConfig.host
                /\ response'.port = connectionConfig.port
                /\ response'.user = connectionConfig.user
                /\ response'.database = connectionConfig.database ]_vars

C18_Witness ==
    /\ pc[1] = "c_create"
    /\ request[1] = [name |-> "connect"]
    /\ connection = Null
    /\ handles[1].st = "closed"
    /\ newConfig[1].host = "db.example"
    /\ newConfig[1].port = parseInt(port3307)
    /\ newConfig[1].user = "app"
    /\ newConfig[1].password = "pw2"
    /\ newConfig[1].database = db2

\* C19: status answers in one step without a driver call, in the Connected
\* and in the Disconnected state alike: the response is not an error, the
\* connection slot, the stored configuration (readonly included) and the
\* handles are unchanged, no handler is left suspended by it, connected is
\* true exactly when the slot holds a handle, and host, port, user, database
\* and readonly are those of the stored configuration.
C19_StatusHasNoSideEffects ==
    [][ Replied("status")
        => /\ ~response'.isError
           /\ UNCHANGED <<connection, connectionConfig, handles>>
           /\ pc' = pc
           /\ response'.connected = (connection # Null)
           /\ response'.host = connectionConfig.host
           /\ response'.port = connectionConfig.port
           /\ response'.user = connectionConfig.user
           /\ response'.database = connectionConfig.database
           /\ response'.readonly = connectionConfig.readonly ]_vars

C19_Witness ==
    /\ response.request = [name |-> "status"]
    /\ ~response.isError
    /\ response.connected = FALSE
    /\ response.database = db2
    /\ connection = Null
    /\ handles[1].st = "closed"

\* C20: a query, list_tables, describe_table or list_databases call that the
\* driver rejects leaves the connection slot on the same handle and the
\* stored configuration (readonly included) and the handles unchanged; and
\* while the slot holds a handle such a call is never answered with the
\* not-connected error: it reaches the guard and, when read-only mode is
\* off, the driver.
StatementTools == {"query", "list_tables", "describe_table", "list_databases"}

C20_FailedQueryKeepsConnection ==
    [][ /\ \A p \in Procs :
             (pc[p] = "q_wait" /\ pc'[p] = "idle"
                /\ request[p].name \in StatementTools
                /\ response'.text = "driver error")
             => /\ connection' = conn[p]
                /\ UNCHANGED <<connection, connectionConfig, handles>>
        /\ \A p \in Procs :
             (pc[p] = "idle" /\ Connected
                /\ request'[p].name \in StatementTools)
             => /\ pc'[p] = "q_conn"
                /\ conn'[p] = connection
        /\ \A p \in Procs :
             (pc[p] = "q_conn" /\ ~connectionConfig.readonly
                /\ pc'[p] # pc[p])
             => (pc'[p] = "q_wait" /\ conn'[p] = conn[p]) ]_vars

C20_Witness ==
    /\ response.request = [name |-> "list_tables"]
    /\ response.isError
    /\ response.text = "driver error"
    /\ Connected
    /\ handles[connection].st = "open"
    /\ connectionConfig.database = db2

\* C21: every handler that finishes returns a response envelope for the
\* request it was called with, and the envelope is flagged as an error
\* exactly for the failing outcomes: a connect that opened no new handle, a
\* disconnect whose end() was rejected, a statement tool that was answered
\* before the driver returned success (not connected, missing argument,
\* read-only guard) or whose statement the driver rejected, a set_readonly
\* without its argument, and an unknown tool; status and a disconnect in the
\* Disconnected state are never errors.
ExecTools == {"query", "list_tables", "describe_table", "list_databases",
              "use_database"}

C21_EveryCallAnswered ==
    [][ /\ \A p \in Procs :
             (pc[p] # "idle" /\ pc'[p] = "idle")
             => (response'.request = request[p]
                   /\ response'.isError \in BOOLEAN)
        /\ (pc' = pc /\ vars' # vars)
             => (response'.request # NoRequest
                   /\ response'.isError \in BOOLEAN)
        /\ Replied("status") => ~response'.isError
        /\ Replied("no_such_tool") => response'.isError
        /\ Replied("set_readonly") =>
             (response'.isError <=> ~Has(Answered, "readonly"))
        /\ Replied("connect") =>
             (response'.isError <=>
                ~(/\ connection' # Null
                  /\ handles[connection'].st = "none"
                  /\ handles'[connection'].st = "open"))
        /\ Replied("disconnect") =>
             (response'.isError <=> (connection # Null /\ connection' # Null))
        /\ (response'.request # NoRequest /\ Answered.name \in ExecTools) =>
             (response'.isError <=>
                ~ \E p \in Procs : /\ pc[p] = "q_wait" /\ pc'[p] = "idle"
                                   /\ handles[conn[p]].st = "open"
                                   /\ response'.text # "driver error") ]_vars

C21_Witness ==
    /\ response.request = [name |-> "no_such_tool"]
    /\ response.isError
    /\ Connected
    /\ AllIdle

\* C22: a tool call that lacks its required argument (query without sql,
\* describe_table without table, use_database without database) never
\* reaches executeQuery: no handler is suspended in executeQuery with such a
\* request.
C22_MissingArgumentRejected ==
    \A p \in Procs :
       pc[p] \in {"q_conn", "q_wait"}
       => /\ request[p].name = "query" => Has(request[p], "sql")
          /\ request[p].name = "describe_table" => Has(request[p], "table")
          /\ request[p].name = "use_database" => Has(request[p], "database")

\* C23: whenever executeQuery calls query on the driver, the handle it
\* calls it on is open: end() has not been invoked on it.
C23_QueryOnlyOnOpenHandle ==
    [][ \A p \in Procs :
          (pc[p] = "q_conn" /\ pc'[p] = "q_wait")
          => handles[conn[p]].st = "open" ]_vars

\* C24: a connect call that completes does not change the readonly flag:
\* a value set by set_readonly while the connect was suspended is still the
\* stored one afterwards.
C24_ReadonlySurvivesReconnect ==
    [][ Replied("connect")
        => connectionConfig'.readonly = connectionConfig.readonly ]_vars

\* C25: when a use_database call is answered with success, the stored
\* database is the one selected on the handle the connection slot holds,
\* also when a concurrent connect has replaced the handle the USE ran on.
C25_DatabaseInSync ==
    [][ (Replied("use_database") /\ ~response'.isError)
        => /\ connection' # Null
           /\ connectionConfig'.database = handles'[connection'].db ]_vars

\* C26: no retries: a connect call reaches createConnection once and a
\* statement tool reaches conn.query once. The handler that awaits
\* createConnection or query is answered by the step on which the driver
\* returns, with an error when the driver failed; createConnection is
\* entered only from the start of the call or from its end(), query only
\* from the guard, the guard only from the start of the call; and one step
\* opens at most one handle.
C26_NoRetries ==
    [][ /\ \A p \in Procs :
             (pc[p] \in {"c_create", "q_wait"} /\ pc'[p] # pc[p])
             => /\ pc'[p] = "idle"
                /\ response'.request = request[p]
                /\ (pc[p] = "c_create" /\ handles' = handles)
                      => response'.isError
                /\ (pc[p] = "q_wait" /\ handles[conn[p]].st # "open")
                      => response'.isError
        /\ \A p \in Procs :
             /\ (pc'[p] = "c_create" /\ pc[p] # "c_create")
                   => pc[p] \in {"idle", "c_end"}
             /\ (pc'[p] = "c_end" /\ pc[p] # "c_end") => pc[p] = "idle"
             /\ (pc'[p] = "q_wait" /\ pc[p] # "q_wait") => pc[p] = "q_conn"
             /\ (pc'[p] = "q_conn" /\ pc[p] # "q_conn") => pc[p] = "idle"
        /\ Cardinality({h \in HandleIds : /\ handles[h].st = "none"
                                           /\ handles'[h].st = "open"}) <= 1
        /\ (\E h \in HandleIds : handles[h].st = "none"
                                   /\ handles'[h].st = "open")
             => \E p \in Procs : pc[p] = "c_create" /\ pc'[p] = "idle" ]_vars

C26_Witness ==
    /\ response.request.name = "connect"
    /\ response.isError
    /\ response.text = "connect failed"
    /\ connection = Null
    /\ \A h \in HandleIds : handles[h].st = "none"
    /\ AllIdle

\* C27: the envelope of a status or connect response has no password field:
\* status carries connected, host, port, user, database and readonly (with
\* message when disconnected and threadId when connected), the success
\* message of connect carries host, port, database and readonly, and the
\* failure response of connect carries only connected = false.
EnvelopeFields == DOMAIN response \ {"request", "isError", "text"}

C27_NoPasswordInResponses ==
    /\ response.request.name \in {"status", "connect"}
          => "password" \notin DOMAIN response
    /\ response.request.name = "status"
          => EnvelopeFields =
                {"connected", "host", "port", "user", "database", "readonly"}
                  \cup (IF response.connected THEN {"threadId"}
                                              ELSE {"message"})
    /\ (response.request.name = "connect" /\ ~response.isError)
          => EnvelopeFields = {"host", "port", "database", "readonly"}
    /\ (response.request.name = "connect" /\ response.isError)
          => EnvelopeFields = {"connected"}

C27_Witness ==
    /\ response.request.name = "connect"
    /\ Has(response.request, "password")
    /\ ~response.isError
    /\ connectionConfig.password = "pw2"
    /\ Connected

\* C28: every tool call eventually completes: a handler suspended at any of
\* its awaits is eventually back to idle with its response returned, under
\* every interleaving of overlapping calls, given that each driver operation
\* eventually returns.
C28_EveryCallCompletes ==
    \A p \in Procs : (pc[p] # "idle") ~> (pc[p] = "idle")

C28_Witness ==
    /\ pc[1] = "q_wait"
    /\ pc[2] = "d_end"
    /\ conn[1] = conn[2]

\* C29: in the MySQLConnectionManager variant, whenever a call has returned
\* and isConnected() is true, the stored configuration is the one of the
\* held handle (the database an open held handle has selected is the stored
\* database), and after a failed connect isConnected() is false.
C29_ManagerConfigMatchesHandle ==
    [][ pc'[Caller] = "idle"
        => /\ (connection' # Null /\ handles'[connection'].st = "open")
                => DatabaseOf(connectionConfig') = handles'[connection'].db
           /\ (Replied("connect") /\ response'.isError)
                => connection' = Null ]_vars

====
